---------------------------- MODULE Spec2Model ----------------------------
(***************************************************************************)
(* Rebalancing calculator of src/IRP/rebalancing/rebalance.py:             *)
(* compute_rebalance (floor quantization, fees, summary) and               *)
(* greedy_cash_spend (single forward sweep that spends leftover cash).     *)
(*                                                                         *)
(* Arithmetic is exact.  Money and prices are whole currency units (KRW    *)
(* closing prices).  A weight is an integer number of 1/WeightScale, a fee *)
(* rate an integer number of 1/FeeScale; a value that is a fraction in the *)
(* code (target value, fee, gap per share) is kept as its numerator over   *)
(* that scale and compared by cross multiplication.                        *)
(*                                                                         *)
(* Columns of the DataFrame (source name -> field):                        *)
(*   종목코드 code, 보유수량 qty, 현재가 price, 현재가치 cur_value,        *)
(*   목표비중 weight, 목표가치 target_value (x WeightScale),               *)
(*   목표수량 target_qty, 거래수량 trade_qty, 리밸런싱후수량 after_qty,    *)
(*   리밸런싱후가치 after_value, 매수금액 buy_amt, 매도금액 sell_amt,      *)
(*   매수수수료 buy_fee (x FeeScale), 매도수수료 sell_fee (x FeeScale),    *)
(*   거래금액(순) net_amt, gap_per_share gap (x WeightScale, over price).  *)
(***************************************************************************)
EXTENDS Integers, Sequences, FiniteSets, TLC

\* ------------------------------------------------------------------ bounds
MaxRows == 3
MaxQty == 1

\* --------------------------------------------------------------- constants
\* weights are written in hundredths (0.24 -> 24)
WeightScale == 100
\* fee rates are written in 1/100000 (0.00015 -> 15)
FeeScale == 100000
\* tolerance of the weight-sum check, 1e-6 = EpsNum / EpsDen
EpsNum == 1
EpsDen == 1000000

\* TARGET_WEIGHTS of the source, in hundredths
TARGET_WEIGHTS ==
    (379800 :> 24) @@ (294400 :> 8) @@ (283580 :> 8) @@ (453810 :> 8) @@
    (411060 :> 19) @@ (308620 :> 7) @@ (453850 :> 7) @@ (385560 :> 14) @@
    (449170 :> 5)

\* The table is configuration that the check of line 186 guards: the model
\* ranges over the source's table, an edited table that sums to 1 and an
\* edited table that does not.
WeightTables ==
    { TARGET_WEIGHTS,
      (379800 :> 60) @@ (411060 :> 40),
      (379800 :> 60) @@ (411060 :> 30) }

\* codes a holdings file may carry: three of the table and one outside it
HeldUniverse == {379800, 411060, 449170, 114800}

\* latest closing prices the price source may return
Prices == {40, 50, 60}

\* fee rates (x FeeScale): the default 0, the docstring's 0.00015, and 1%
FeeRates == {0, 15, 1000}

\* ----------------------------------------------------------------- helpers
Abs(x) == IF x < 0 THEN -x ELSE x

RECURSIVE SumSeq(_)
SumSeq(s) == IF s = <<>> THEN 0 ELSE Head(s) + SumSeq(Tail(s))

\* a column of a DataFrame
Column(rows, name) == [k \in 1..Len(rows) |-> rows[k][name]]

RECURSIVE SumFn(_)
SumFn(w) ==
    IF DOMAIN w = {} THEN 0
    ELSE LET c == CHOOSE c \in DOMAIN w : TRUE
         IN  w[c] + SumFn([d \in DOMAIN w \ {c} |-> w[d]])

\* math.floor of n / d for d > 0 and n >= 0 (the faulty variant rounds up)
FloorBad(n, d) == (n + d - 1) \div d

Floor(n, d) == n \div d

\* Series.round(): numpy rounds half to even; n >= 0, d > 0
Round(n, d) ==
    LET q == n \div d
        r == n % d
    IN  IF 2 * r < d THEN q
        ELSE IF 2 * r > d THEN q + 1
        ELSE IF q % 2 = 0 THEN q ELSE q + 1

\* Series.clip(lower=0) and -Series.clip(upper=0)
ClipLower0(x) == IF x < 0 THEN 0 ELSE x

NegClipUpper0(x) == IF x > 0 THEN 0 ELSE -x

RECURSIVE SortedCodes(_)
SortedCodes(S) ==
    IF S = {} THEN <<>>
    ELSE LET c == CHOOSE c \in S : \A d \in S : c <= d
         IN  <<c>> \o SortedCodes(S \ {c})

\* ------------------------------------------------------------------- state
VARIABLES
    holdings,       \* input: rows (code, qty) as load_holdings returns them
    price_map,      \* input: code -> price
    weights,        \* the module's target-weight table
    fee_rate,       \* input, x FeeScale
    use_greedy,     \* input
    pc,             \* "start", "planned", "sweep", "done", "error"
    error,          \* which ValueError was raised: "none", "price", "weights"
    df,             \* the working DataFrame, a sequence of rows
    total_before, total_after, total_buy, total_sell,
    total_fee,      \* x FeeScale
    net_cash,
    leftover_cash,  \* compute_rebalance's local (line 223)
    cash,           \* greedy_cash_spend's parameter leftover_cash
    order,          \* greedy_cash_spend: row indices by descending gap
    i,              \* greedy_cash_spend: position in order, 0-based
    df_out,         \* returned lines
    numbers,        \* returned summary
    script,         \* which program runs: "rebalance", "dual", "pick", "vaa"
    series,         \* momentum scripts: ticker -> monthly closes, oldest first
    kr_mapping,     \* dualmomentom.py: the module's KR_MAPPING table
    mpc,            \* momentum scripts: "start", "summary", "done", "error"
    scores,         \* momentum scripts: the summary table, one row per candidate
    decision,       \* momentum scripts: the returned decision
    total_krw,      \* build_allocation: the amount to invest
    assets,         \* build_allocation: the module's ASSETS table
    last_price,     \* build_allocation: code -> what get_last_price finds
    allocation,     \* build_allocation: the returned table
    sheet,          \* load_holdings: the rows of the Excel sheet
    has_names,      \* load_holdings: the sheet has a name column
    loaded,         \* load_holdings: the returned table
    tpc,            \* build_allocation, load_holdings: "start", "done", "error"
    previous        \* the plan whose post-trade quantities are the holdings
                    \* of this run; <<>> in a first run

vars == << holdings, price_map, weights, fee_rate, use_greedy, pc, error, df,
           total_before, total_after, total_buy, total_sell, total_fee,
           net_cash, leftover_cash, cash, order, i, df_out, numbers,
           script, series, kr_mapping, mpc, scores, decision,
           total_krw, assets, last_price, allocation, sheet, has_names,
           loaded, tpc, previous >>

inputs == << holdings, price_map, weights, fee_rate, use_greedy, previous >>

totals == << total_before, total_after, total_buy, total_sell, total_fee,
             net_cash, leftover_cash >>

sweep == << cash, order, i >>

result == << df_out, numbers >>

momentum == << script, series, kr_mapping, mpc, scores, decision >>

tables == << total_krw, assets, last_price, allocation, sheet, has_names,
             loaded, tpc >>

\* the variables of build_allocation and load_holdings before they run
NoTables ==
    /\ total_krw = 0 /\ assets = <<>> /\ last_price = <<>> /\ allocation = <<>>
    /\ sheet = <<>> /\ has_names = FALSE /\ loaded = <<>>
    /\ tpc = "start"

HeldSets == { S \in SUBSET HeldUniverse : Cardinality(S) \in 1..MaxRows }

\* rows in ascending code order (groupby sorts its keys), quantities > 0
HoldingsOf(q) ==
    LET codes == SortedCodes(DOMAIN q)
    IN  [k \in 1..Len(codes) |-> [code |-> codes[k], qty |-> q[codes[k]]]]

NoNumbers ==
    [total_before |-> 0, total_after |-> 0, total_buy |-> 0, total_sell |-> 0,
     total_fee |-> 0, net_cash |-> 0, fee_adjusted_value |-> 0, delta |-> 0]

Init ==
    /\ \E S \in HeldSets : \E q \in [S -> 1..MaxQty] :
         \E P \in SUBSET S : \E pm \in [P -> Prices] :
            /\ holdings = HoldingsOf(q)
            /\ price_map = pm
    /\ weights \in WeightTables
    /\ fee_rate \in FeeRates
    /\ use_greedy \in BOOLEAN
    /\ pc = "start"
    /\ error = "none"
    /\ df = <<>>
    /\ total_before = 0 /\ total_after = 0 /\ total_buy = 0
    /\ total_sell = 0 /\ total_fee = 0 /\ net_cash = 0
    /\ leftover_cash = 0
    /\ cash = 0 /\ order = <<>> /\ i = 0
    /\ df_out = <<>>
    /\ numbers = NoNumbers
    /\ previous = <<>>
    /\ script = "rebalance"
    /\ series = <<>> /\ kr_mapping = <<>>
    /\ mpc = "start" /\ scores = <<>> /\ decision = <<>>
    /\ NoTables

\* ------------------------------------------------------- compute_rebalance
\* lines 173-176: codes of the holdings that the price map does not cover
MissingCodes == { holdings[k].code : k \in 1..Len(holdings) } \ DOMAIN price_map

\* line 183: .map(TARGET_WEIGHTS).fillna(0.0)
WeightOf(code) == IF code \in DOMAIN weights THEN weights[code] ELSE 0

\* line 186: abs(sum(TARGET_WEIGHTS.values()) - 1.0) > 1e-6
WeightSumBad == Abs(SumFn(weights) - WeightScale) * EpsDen > EpsNum * WeightScale

\* line 195 (faulty variants: the sign reversed; the holdings ignored)
TradeQuantityBad(target_qty, qty) == qty - target_qty

TradeQuantityFresh(target_qty, qty) == target_qty

TradeQuantity(target_qty, qty) == target_qty - qty

\* line 198 (the faulty variant takes the trade for the new position)
AfterQuantityBad(qty, trade) == trade

AfterQuantity(qty, trade) == qty + trade

\* lines 173-199 for one row; T is total_before
QuantizeRow(h, T) ==
    LET price  == price_map[h.code]
        weight == WeightOf(h.code)
        tv     == T * weight
        tq     == Floor(tv, WeightScale * price)
        trade  == TradeQuantity(tq, h.qty)
        after  == AfterQuantity(h.qty, trade)
    IN  [code |-> h.code, qty |-> h.qty, price |-> price,
         cur_value |-> h.qty * price, weight |-> weight,
         target_value |-> tv, target_qty |-> tq, trade_qty |-> trade,
         after_qty |-> after, after_value |-> after * price]

\* lines 203-214 for one row (the faulty variant adds the fee to the sell
\* amount)
FeeRowBad(r) ==
    LET gross_buy  == ClipLower0(r.trade_qty) * r.price
        gross_sell == NegClipUpper0(r.trade_qty) * r.price
        buy_fee    == IF fee_rate > 0 THEN gross_buy * fee_rate ELSE 0
        sell_fee   == IF fee_rate > 0 THEN gross_sell * fee_rate ELSE 0
        buy_amt    == Round(gross_buy * FeeScale + buy_fee, FeeScale)
        sell_amt   == Round(gross_sell * FeeScale + sell_fee, FeeScale)
    IN  r @@ [buy_fee |-> buy_fee, sell_fee |-> sell_fee,
              buy_amt |-> buy_amt, sell_amt |-> sell_amt,
              net_amt |-> buy_amt - sell_amt]

FeeRow(r) ==
    LET gross_buy  == ClipLower0(r.trade_qty) * r.price
        gross_sell == NegClipUpper0(r.trade_qty) * r.price
        buy_fee    == IF fee_rate > 0 THEN gross_buy * fee_rate ELSE 0
        sell_fee   == IF fee_rate > 0 THEN gross_sell * fee_rate ELSE 0
        buy_amt    == Round(gross_buy * FeeScale + buy_fee, FeeScale)
        sell_amt   == Round(gross_sell * FeeScale - sell_fee, FeeScale)
    IN  r @@ [buy_fee |-> buy_fee, sell_fee |-> sell_fee,
              buy_amt |-> buy_amt, sell_amt |-> sell_amt,
              net_amt |-> buy_amt - sell_amt]

\* lines 172-176: a held code without a price raises ValueError
RaiseMissingPrice ==
    /\ pc = "start"
    /\ MissingCodes # {}
    /\ pc' = "error"
    /\ error' = "price"
    /\ UNCHANGED << momentum, tables, inputs, df, totals, sweep, result >>

\* lines 185-187: the table does not sum to 1 within 1e-6
RaiseWeightSum ==
    /\ pc = "start"
    /\ MissingCodes = {}
    /\ WeightSumBad
    /\ pc' = "error"
    /\ error' = "weights"
    /\ UNCHANGED << momentum, tables, inputs, df, totals, sweep, result >>

\* lines 172-223: quantize, fees, totals, leftover
Quantize ==
    /\ pc = "start"
    /\ MissingCodes = {}
    /\ ~WeightSumBad
    /\ LET T    == SumSeq([k \in 1..Len(holdings) |->
                              holdings[k].qty * price_map[holdings[k].code]])
           rows == [k \in 1..Len(holdings) |-> FeeRow(QuantizeRow(holdings[k], T))]
       IN  /\ df' = rows
           /\ total_before' = T
           /\ total_after' = SumSeq(Column(rows, "after_value"))
           /\ total_buy' = SumSeq(Column(rows, "buy_amt"))
           /\ total_sell' = SumSeq(Column(rows, "sell_amt"))
           /\ total_fee' = SumSeq(Column(rows, "buy_fee")) + SumSeq(Column(rows, "sell_fee"))
           /\ net_cash' = SumSeq(Column(rows, "net_amt"))
           /\ leftover_cash' = SumSeq(Column(rows, "sell_amt")) - SumSeq(Column(rows, "buy_amt"))
    /\ pc' = "planned"
    /\ UNCHANGED << momentum, tables, inputs, error, sweep, result >>

\* line 224: the condition of the greedy call (the faulty variant forgets
\* the flag)
SweepWantedBad(flag, leftover) == leftover > 0

SweepWanted(flag, leftover) == flag /\ leftover > 0

\* lines 236-242: the returned columns, sorted by weight descending and then
\* code ascending (equal keys keep their row order)
OutRow(r) ==
    [code |-> r.code, weight |-> r.weight, price |-> r.price, qty |-> r.qty,
     cur_value |-> r.cur_value, target_value |-> r.target_value,
     target_qty |-> r.target_qty, trade_qty |-> r.trade_qty,
     after_qty |-> r.after_qty, after_value |-> r.after_value,
     buy_amt |-> r.buy_amt, sell_amt |-> r.sell_amt, net_amt |-> r.net_amt]

Precedes(a, b) ==
    \/ a.weight > b.weight
    \/ a.weight = b.weight /\ a.code < b.code

SameKey(a, b) == a.weight = b.weight /\ a.code = b.code

RECURSIVE SortOut(_)
SortOut(rows) ==
    IF Len(rows) = 0 THEN <<>>
    ELSE LET k == CHOOSE k \in 1..Len(rows) :
                    \A l \in 1..Len(rows) \ {k} :
                        \/ Precedes(rows[k], rows[l])
                        \/ SameKey(rows[k], rows[l]) /\ k < l
         IN  <<rows[k]>> \o
             SortOut(SubSeq(rows, 1, k - 1) \o SubSeq(rows, k + 1, Len(rows)))

\* lines 233 and 244-253: the summary dict (fee figures x FeeScale)
Numbers(before, after, buy, sell, fee, net) ==
    [total_before |-> before, total_after |-> after, total_buy |-> buy,
     total_sell |-> sell, total_fee |-> fee, net_cash |-> net,
     fee_adjusted_value |-> after * FeeScale - fee,
     delta |-> after - before]

\* lines 224 and 231-254: no sweep, the plan is returned as quantized
ReturnPlan ==
    /\ pc = "planned"
    /\ ~SweepWanted(use_greedy, leftover_cash)
    /\ df_out' = SortOut([k \in 1..Len(df) |-> OutRow(df[k])])
    /\ numbers' = Numbers(total_before, total_after, total_buy, total_sell,
                          total_fee, net_cash)
    /\ pc' = "done"
    /\ UNCHANGED << momentum, tables, inputs, error, df, totals, sweep >>

\* ------------------------------------------------------- greedy_cash_spend
\* line 139, numerator of gap_per_share x WeightScale (the denominator is price)
GapOf(r) == r.target_value - WeightScale * r.after_value

\* gap_per_share of a >= gap_per_share of b
GapGE(a, b) == a.gap * b.price >= b.gap * a.price

\* line 140: sort_values(ascending=False); rows of equal gap come in an order
\* the sort does not promise
Orders(rows) ==
    { o \in [1..Len(rows) -> 1..Len(rows)] :
        /\ \A k, l \in 1..Len(rows) : k # l => o[k] # o[l]
        /\ \A k, l \in 1..Len(rows) : k < l => GapGE(rows[o[k]], rows[o[l]]) }

\* lines 224-225 and 136-142: enter the sweep with the leftover cash
GreedyEnter ==
    /\ pc = "planned"
    /\ SweepWanted(use_greedy, leftover_cash)
    /\ LET rows == [k \in 1..Len(df) |-> df[k] @@ [gap |-> GapOf(df[k])]]
       IN  /\ df' = rows
           /\ order' \in Orders(rows)
    /\ cash' = leftover_cash
    /\ i' = 0
    /\ pc' = "sweep"
    /\ UNCHANGED << momentum, tables, inputs, error, totals, result >>

\* line 146, with two faulty variants of the comparison
CanBuyBad(c, price) == c > 0

CanBuyStrict(c, price) == c > price

CanBuy(c, price) == c >= price

\* lines 146-152: i moves on only in the else branch (the faulty variants
\* move on after a purchase too, or never)
NextIndexBad(k, bought) == k + 1

NextIndexStuck(k, bought) == k

NextIndex(k, bought) == IF bought THEN k ELSE k + 1

\* lines 144-150: one more share of the current instrument
GreedyBuy ==
    /\ pc = "sweep"
    /\ i < Len(order)
    /\ LET idx   == order[i + 1]
           price == df[idx].price
       IN  /\ CanBuy(cash, price)
           /\ df' = [df EXCEPT ![idx].trade_qty = @ + 1,
                               ![idx].after_qty = @ + 1,
                               ![idx].after_value = (df[idx].after_qty + 1) * price]
           /\ cash' = cash - price
    /\ i' = NextIndex(i, TRUE)
    /\ UNCHANGED << momentum, tables, inputs, pc, error, totals, order, result >>

\* lines 151-152: the current instrument is too dear, move on
GreedyAdvance ==
    /\ pc = "sweep"
    /\ i < Len(order)
    /\ ~CanBuy(cash, df[order[i + 1]].price)
    /\ i' = NextIndex(i, FALSE)
    /\ UNCHANGED << momentum, tables, inputs, pc, error, df, totals, cash, order, result >>

\* lines 155-157 for one row (the faulty variant leaves the net column stale)
RecomputeRowBad(r) ==
    LET buy_amt  == ClipLower0(r.trade_qty) * r.price
        sell_amt == NegClipUpper0(r.trade_qty) * r.price
    IN  [r EXCEPT !.buy_amt = buy_amt, !.sell_amt = sell_amt]

RecomputeRow(r) ==
    LET buy_amt  == ClipLower0(r.trade_qty) * r.price
        sell_amt == NegClipUpper0(r.trade_qty) * r.price
    IN  [r EXCEPT !.buy_amt = buy_amt, !.sell_amt = sell_amt,
                  !.net_amt = buy_amt - sell_amt]

\* lines 143, 154-158, 226-229 and 231-254: the sweep is over
GreedyReturn ==
    /\ pc = "sweep"
    /\ i >= Len(order)
    /\ LET rows == [k \in 1..Len(df) |-> RecomputeRow(df[k])]
       IN  /\ df' = rows
           /\ total_buy' = SumSeq(Column(rows, "buy_amt"))
           /\ total_sell' = SumSeq(Column(rows, "sell_amt"))
           /\ net_cash' = SumSeq(Column(rows, "net_amt"))
           /\ df_out' = SortOut([k \in 1..Len(rows) |-> OutRow(rows[k])])
           /\ numbers' = Numbers(total_before, total_after,
                                 SumSeq(Column(rows, "buy_amt")), SumSeq(Column(rows, "sell_amt")),
                                 total_fee, SumSeq(Column(rows, "net_amt")))
    /\ pc' = "done"
    /\ UNCHANGED << momentum, tables, inputs, error, total_before, total_after, total_fee,
                    leftover_cash, sweep >>

Next ==
    \/ RaiseMissingPrice
    \/ RaiseWeightSum
    \/ Quantize
    \/ ReturnPlan
    \/ GreedyEnter
    \/ GreedyBuy
    \/ GreedyAdvance
    \/ GreedyReturn

Spec == Init /\ [][Next]_vars

\* lines 143 and 158: the loop condition fails and the function returns;
\* among the steps of Next these are the steps of GreedyReturn
LoopExit == pc = "sweep" /\ i >= Len(order) /\ pc' = "done"

\* the runs with the greedy flag on
InitFair == Init /\ use_greedy

\* lines 142-158: the script is one sequential thread, so the loop takes
\* its next step, a purchase, an advance or the exit, whenever it has one
SpecFair ==
    /\ InitFair
    /\ [][Next]_vars
    /\ WF_vars(GreedyBuy) /\ WF_vars(GreedyAdvance) /\ WF_pc(LoopExit)

\* ------------------------------------------- compute_rebalance, run again
\* lines 161-172: a second call of compute_rebalance (fee_rate 0) whose
\* holdings argument carries the post-trade quantities of the plan just
\* returned, with the same price map, weight table and greedy flag
AfterQty(code) ==
    LET k == CHOOSE k \in 1..Len(df_out) : df_out[k].code = code
    IN  df_out[k].after_qty

FeedBack ==
    /\ pc = "done"
    /\ previous = <<>>
    /\ fee_rate = 0
    /\ previous' = [lines |-> df_out, numbers |-> numbers]
    /\ holdings' = [k \in 1..Len(holdings) |->
                       [code |-> holdings[k].code,
                        qty  |-> AfterQty(holdings[k].code)]]
    /\ pc' = "start"
    /\ df' = <<>>
    /\ total_before' = 0 /\ total_after' = 0 /\ total_buy' = 0
    /\ total_sell' = 0 /\ total_fee' = 0 /\ net_cash' = 0
    /\ leftover_cash' = 0
    /\ cash' = 0 /\ order' = <<>> /\ i' = 0
    /\ df_out' = <<>>
    /\ numbers' = NoNumbers
    /\ UNCHANGED << momentum, tables, price_map, weights, fee_rate, use_greedy,
                    error >>

NextRerun ==
    \/ Next
    \/ FeedBack

SpecRerun == Init /\ [][NextRerun]_vars

\* =========================================================================
\* The momentum scripts: src/ISA/dualmomentom.py (decide_allocation),
\* src/tmp/dualm.py (pick_asset), src/ISA/backup/vaa_efa.py (decision_banner)
\* =========================================================================
\* vaa_efa.py line 16; trailing_12m_return writes the same 13 at line 55
MIN_MONTHS == 13

\* A month-end series of n closes, oldest first, whose closes 12, 6, 3, 1 and
\* 0 months before the end are s[1] .. s[5]; every other month closes at 15.
MakeSeries(s, n) ==
    [k \in 1..n |-> CASE k = n      -> s[5]
                      [] k = n - 1  -> s[4]
                      [] k = n - 3  -> s[3]
                      [] k = n - 6  -> s[2]
                      [] k = n - 12 -> s[1]
                      [] OTHER      -> 15]

\* histories long enough for the 12-month window (13 or 14 month-ends):
\* +10%, +20%, -10% over every window, and one whose weighted score is
\* 12*0 + 4/11 - 2*2/14 - 1/13 = 0.000999
LongSeries ==
    { MakeSeries(<<10, 10, 10, 10, 11>>, 13),
      MakeSeries(<<10, 10, 10, 10, 12>>, 14),
      MakeSeries(<<10, 10, 10, 10, 9>>, 13),
      MakeSeries(<<13, 14, 11, 12, 12>>, 14) }

\* a history of 12 month-ends: one short of the 12-month window
ShortSeries == MakeSeries(<<10, 10, 10, 10, 11>>, 12)

\* a float that is NaN, or the exact ratio num / den with den > 0
NaN == [nan |-> TRUE, num |-> 0, den |-> 1]

\* p0 / pk - 1
Ratio(p0, pk) == [nan |-> FALSE, num |-> p0 - pk, den |-> pk]

\* a > b and a >= b on floats: False as soon as one side is NaN
GT(a, b) == ~a.nan /\ ~b.nan /\ a.num * b.den > b.num * a.den

GE(a, b) == ~a.nan /\ ~b.nan /\ a.num * b.den >= b.num * a.den

\* Series.idxmax() of pandas: the first position holding the largest value
\* that is not NaN (the faulty variant returns the last such position)
idxmaxBad(vals) ==
    CHOOSE k \in 1..Len(vals) :
        /\ ~vals[k].nan
        /\ \A j \in 1..Len(vals) : vals[j].nan \/ GE(vals[k], vals[j])
        /\ \A j \in (k + 1)..Len(vals) : vals[j].nan \/ GT(vals[k], vals[j])

idxmax(vals) ==
    CHOOSE k \in 1..Len(vals) :
        /\ ~vals[k].nan
        /\ \A j \in 1..Len(vals) : vals[j].nan \/ GE(vals[k], vals[j])
        /\ \A j \in 1..(k - 1) : vals[j].nan \/ GT(vals[k], vals[j])

AllNaN(vals) == \A k \in 1..Len(vals) : vals[k].nan

rebalance == << inputs, pc, error, df, totals, sweep, result >>

\* ------------------------------------------- dualmomentom.py decide_allocation
\* lines 21-25: the tickers whose 12-month return is computed
US_TICKERS == <<"SPY", "EFA", "BIL", "AGG">>

\* lines 28-39, weights in percent
KR_MAPPING ==
    [SPY |-> << [code |-> "379800", weight |-> 100] >>,
     EFA |-> << [code |-> "195930", weight |-> 50],
                [code |-> "195920", weight |-> 50] >>,
     AGG |-> << [code |-> "437080", weight |-> 100] >>]

\* the table of the source, the table of backup/dualmomentom_efa.py, and an
\* edited table whose EFA rows sum to 90%
KrMappings ==
    { KR_MAPPING,
      [KR_MAPPING EXCEPT !.EFA = << [code |-> "251350", weight |-> 100] >>],
      [KR_MAPPING EXCEPT !.EFA = << [code |-> "195930", weight |-> 50],
                                    [code |-> "195920", weight |-> 40] >>] }

\* lines 54-60: the raise of line 56, and the return by position
TooShort(monthly) == Len(monthly) < 13

trailing_12m_return(monthly) ==
    Ratio(monthly[Len(monthly)], monthly[Len(monthly) - 12])

\* lines 81-86 (faulty variants: >= at the threshold; SPY whenever it passes
\* the threshold; EFA on a tie with SPY)
chosen_usThreshold(r_spy, r_efa, r_bil) ==
    IF GE(r_spy, r_bil)
    THEN IF GE(r_spy, r_efa) THEN "SPY" ELSE "EFA"
    ELSE "AGG"

chosen_usNoEfa(r_spy, r_efa, r_bil) ==
    IF GT(r_spy, r_bil) THEN "SPY" ELSE "AGG"

chosen_usTie(r_spy, r_efa, r_bil) ==
    IF GT(r_spy, r_bil)
    THEN IF GT(r_spy, r_efa) THEN "SPY" ELSE "EFA"
    ELSE "AGG"

chosen_us(r_spy, r_efa, r_bil) ==
    IF GT(r_spy, r_bil)
    THEN IF GE(r_spy, r_efa) THEN "SPY" ELSE "EFA"
    ELSE "AGG"

\* lines 73-76: one of the four histories is shorter than 13 month-ends
DecideRaise ==
    /\ script = "dual"
    /\ mpc = "start"
    /\ \E k \in 1..Len(US_TICKERS) : TooShort(series[US_TICKERS[k]])
    /\ mpc' = "error"
    /\ UNCHANGED << rebalance, tables, script, series, kr_mapping, scores, decision >>

\* lines 65-105: the rule and the look-up of the chosen ticker's rows
DecideAllocation ==
    /\ script = "dual"
    /\ mpc = "start"
    /\ \A k \in 1..Len(US_TICKERS) : ~TooShort(series[US_TICKERS[k]])
    /\ LET r == [t \in DOMAIN series |-> trailing_12m_return(series[t])]
           c == chosen_us(r["SPY"], r["EFA"], r["BIL"])
       IN  /\ scores' = r
           /\ decision' = [chosen_us |-> c, kr_alloc |-> kr_mapping[c],
                           chosen_12m |-> r[c]]
    /\ mpc' = "done"
    /\ UNCHANGED << rebalance, tables, script, series, kr_mapping >>

\* ------------------------------------------------------- dualm.py pick_asset
\* lines 15-19 and 20
ETFS == <<"379800", "195930", "195920">>

BOND == "437080"

\* line 25
ABS_THRESHOLD_MODE == "bond"

\* line 56 at the last month: series / series.shift(12) - 1
compute_12m_return(monthly) ==
    IF Len(monthly) <= 12 THEN NaN
    ELSE Ratio(monthly[Len(monthly)], monthly[Len(monthly) - 12])

\* lines 58-71 at the last month (faulty variant: >= at the threshold)
pick_rowBad(equity_12m, bond_12m) ==
    LET k == idxmax(equity_12m)
    IN  IF GE(equity_12m[k], bond_12m) THEN ETFS[k] ELSE BOND

pick_row(equity_12m, bond_12m) ==
    LET k         == idxmax(equity_12m)
        threshold == IF ABS_THRESHOLD_MODE = "bond" THEN bond_12m
                     ELSE Ratio(1, 1)
    IN  IF GT(equity_12m[k], threshold) THEN ETFS[k] ELSE BOND

Equity12m == [k \in 1..Len(ETFS) |-> compute_12m_return(series[ETFS[k]])]

\* line 59 dropna(how="all"): a month without any equity return has no pick
PickNone ==
    /\ script = "pick"
    /\ mpc = "start"
    /\ AllNaN(Equity12m)
    /\ mpc' = "error"
    /\ UNCHANGED << rebalance, tables, script, series, kr_mapping, scores, decision >>

PickAsset ==
    /\ script = "pick"
    /\ mpc = "start"
    /\ ~AllNaN(Equity12m)
    /\ scores' = [equity_12m |-> Equity12m,
                  bond_12m |-> compute_12m_return(series[BOND])]
    /\ decision' = [pick |-> pick_row(Equity12m, compute_12m_return(series[BOND]))]
    /\ mpc' = "done"
    /\ UNCHANGED << rebalance, tables, script, series, kr_mapping >>

\* ------------------------------------------------- vaa_efa.py decision_banner
\* lines 23-32, groups "aggr" (공격자산) and "safe" (안전자산)
DECISION_ASSETS ==
    << [group |-> "aggr", ticker |-> "SPY"], [group |-> "aggr", ticker |-> "EFA"],
       [group |-> "aggr", ticker |-> "EEM"], [group |-> "aggr", ticker |-> "AGG"],
       [group |-> "safe", ticker |-> "LQD"], [group |-> "safe", ticker |-> "IEF"],
       [group |-> "safe", ticker |-> "SHY"] >>

\* lines 49-57
PROXY_MAP ==
    [SPY |-> <<"IVV", "VOO">>, EFA |-> <<"IEFA">>, EEM |-> <<"VWO">>,
     AGG |-> <<"BND">>, LQD |-> <<"VCIT">>, IEF |-> <<"GOVT">>,
     SHY |-> <<"BIL", "SHV">>]

\* a proxy's history, when it is long enough: +30% over every window
ProxySeries == MakeSeries(<<10, 10, 10, 10, 13>>, 13)

\* lines 137-175: score_raw = 12*r1 + 4*r3 + 2*r6 + 1*r12 as an exact ratio,
\* the closes taken by position from the end
\* (lines 148-149: a ValueError for fewer than MIN_MONTHS closes; the faulty
\* variant takes the close of 12 months ago from the start of the series)
Raised == [raised |-> TRUE]

snapshot_momentumFirst(monthly) ==
    IF Len(monthly) < MIN_MONTHS THEN Raised
    ELSE
    LET n   == Len(monthly)
        P0  == monthly[n]
        P1  == monthly[n - 1]
        P3  == monthly[n - 3]
        P6  == monthly[n - 6]
        P12 == monthly[1]
    IN  [raised |-> FALSE, nan |-> FALSE,
         r1 |-> Ratio(P0, P1), r3 |-> Ratio(P0, P3),
         r6 |-> Ratio(P0, P6), r12 |-> Ratio(P0, P12),
         num |-> 12 * (P0 - P1) * (P3 * P6 * P12) + 4 * (P0 - P3) * (P1 * P6 * P12)
                 + 2 * (P0 - P6) * (P1 * P3 * P12) + (P0 - P12) * (P1 * P3 * P6),
         den |-> P1 * P3 * P6 * P12]

snapshot_momentum(monthly) ==
    IF Len(monthly) < MIN_MONTHS THEN Raised
    ELSE
    LET n   == Len(monthly)
        P0  == monthly[n]
        P1  == monthly[n - 1]
        P3  == monthly[n - 3]
        P6  == monthly[n - 6]
        P12 == monthly[n - 12]
    IN  [raised |-> FALSE, nan |-> FALSE,
         r1 |-> Ratio(P0, P1), r3 |-> Ratio(P0, P3),
         r6 |-> Ratio(P0, P6), r12 |-> Ratio(P0, P12),
         num |-> 12 * (P0 - P1) * (P3 * P6 * P12) + 4 * (P0 - P3) * (P1 * P6 * P12)
                 + 2 * (P0 - P6) * (P1 * P3 * P12) + (P0 - P12) * (P1 * P3 * P6),
         den |-> P1 * P3 * P6 * P12]

\* lines 177-194: the ticker's own history, else the first proxy whose
\* history is long enough, else no data
resolve_with_proxy(us_ticker) ==
    LET proxies == PROXY_MAP[us_ticker]
        usable  == { k \in 1..Len(proxies) : Len(series[proxies[k]]) >= MIN_MONTHS }
    IN  IF Len(series[us_ticker]) >= MIN_MONTHS
        THEN [used_ticker |-> us_ticker, src |-> "original",
              score_pct |-> snapshot_momentum(series[us_ticker])]
        ELSE IF usable # {}
        THEN LET k == CHOOSE k \in usable : \A j \in usable : k <= j
             IN  [used_ticker |-> proxies[k], src |-> "proxy",
                  score_pct |-> snapshot_momentum(series[proxies[k]])]
        ELSE [used_ticker |-> us_ticker, src |-> "nodata", score_pct |-> NaN]

\* line 222: round(score_pct, 2), in hundredths (the faulty variant truncates)
Round2Bad(x) ==
    IF x.nan THEN NaN
    ELSE [nan |-> FALSE, num |-> (100 * x.num) \div x.den, den |-> 100]

Round2(x) ==
    IF x.nan THEN NaN
    ELSE [nan |-> FALSE,
          num |-> IF x.num >= 0 THEN Round(100 * x.num, x.den)
                  ELSE -Round(-100 * x.num, x.den),
          den |-> 100]

\* lines 199-232: one row of the summary per decision asset; returned is
\* what resolve_with_proxy handed over (line 211), score what the table keeps
SummaryRow(a) ==
    LET res == resolve_with_proxy(a.ticker)
    IN  [group |-> a.group, us_ticker |-> a.ticker, used_ticker |-> res.used_ticker,
         src |-> res.src, returned |-> res.score_pct,
         score |-> Round2(res.score_pct)]

build_summary_df ==
    /\ script = "vaa"
    /\ mpc = "start"
    /\ scores' = [k \in 1..Len(DECISION_ASSETS) |-> SummaryRow(DECISION_ASSETS[k])]
    /\ mpc' = "summary"
    /\ UNCHANGED << rebalance, tables, script, series, kr_mapping, decision >>

Group(g) == SelectSeq(scores, LAMBDA r : r.group = g)

\* line 241: all((aggr[score] > 0).fillna(False))
AllPositive(rows) == \A k \in 1..Len(rows) : GT(rows[k].score, Ratio(1, 1))

\* lines 234-249
decision_banner ==
    /\ script = "vaa"
    /\ mpc = "summary"
    /\ LET aggr == Group("aggr")
           safe == Group("safe")
       IN  IF AllPositive(aggr)
           THEN decision' = [mode |-> "aggr",
                             tgt |-> aggr[idxmax(Column(aggr, "score"))]]
           ELSE /\ ~AllNaN(Column(safe, "score"))
                /\ decision' = [mode |-> "safe",
                                tgt |-> safe[idxmax(Column(safe, "score"))]]
    /\ mpc' = "done"
    /\ UNCHANGED << rebalance, tables, script, series, kr_mapping, scores >>

\* line 244: idxmax over a column without any score has no row to return
decision_banner_raise ==
    /\ script = "vaa"
    /\ mpc = "summary"
    /\ ~AllPositive(Group("aggr"))
    /\ AllNaN(Column(Group("safe"), "score"))
    /\ mpc' = "error"
    /\ UNCHANGED << rebalance, tables, script, series, kr_mapping, scores, decision >>

\* ------------------------------------------------ the three scripts' inputs
\* histories a decision asset of the VAA script may have: every history for
\* SPY and EFA, a rising, a falling or a short one for the other five
Histories(t) ==
    IF t \in {"SPY", "EFA"} THEN LongSeries \cup {ShortSeries}
    ELSE { MakeSeries(<<10, 10, 10, 10, 11>>, 13),
           MakeSeries(<<10, 10, 10, 10, 9>>, 13), ShortSeries }

\* proxies are fetched only for an asset whose own history is short
ProxiesOf(S) == UNION { { PROXY_MAP[t][k] : k \in 1..Len(PROXY_MAP[t]) } : t \in S }

InitSeries ==
    \/ /\ script = "dual"
       /\ series \in [{"SPY", "EFA", "BIL", "AGG"} -> LongSeries \cup {ShortSeries}]
       /\ kr_mapping \in KrMappings
    \/ /\ script = "pick"
       /\ series \in [{"379800", "195930", "195920", "437080"}
                         -> LongSeries \cup {ShortSeries}]
       /\ kr_mapping = <<>>
    \/ /\ script = "vaa"
       /\ \E own \in [DOMAIN PROXY_MAP -> LongSeries \cup {ShortSeries}] :
            /\ \A t \in DOMAIN own : own[t] \in Histories(t)
            /\ LET short == { t \in DOMAIN own : own[t] = ShortSeries }
               IN  \E p \in [ProxiesOf(short) -> {ShortSeries, ProxySeries}] :
                      series = own @@ p
       /\ kr_mapping = <<>>

InitMomentum ==
    /\ InitSeries
    /\ NoTables
    /\ mpc = "start" /\ scores = <<>> /\ decision = <<>>
    /\ holdings = <<>> /\ price_map = <<>> /\ weights = TARGET_WEIGHTS
    /\ fee_rate = 0 /\ use_greedy = FALSE /\ previous = <<>>
    /\ pc = "start"
    /\ error = "none"
    /\ df = <<>>
    /\ total_before = 0 /\ total_after = 0 /\ total_buy = 0
    /\ total_sell = 0 /\ total_fee = 0 /\ net_cash = 0
    /\ leftover_cash = 0
    /\ cash = 0 /\ order = <<>> /\ i = 0
    /\ df_out = <<>>
    /\ numbers = NoNumbers

NextMomentum ==
    \/ DecideRaise
    \/ DecideAllocation
    \/ PickNone
    \/ PickAsset
    \/ build_summary_df
    \/ decision_banner
    \/ decision_banner_raise

SpecMomentum == InitMomentum /\ [][NextMomentum]_vars

\* =========================================================================
\* src/IRP/k-allweather/k-allweather.py and src/test/streamlit_vaa/main.py
\* (build_allocation), src/IRP/rebalancing/rebalance.py (load_holdings)
\* =========================================================================
\* ------------------------------------------------------------------ bounds
\* rows of the Excel sheet load_holdings reads
MaxSheet == 2

\* k-allweather.py lines 9-19, ratios in hundredths
ASSETS ==
    << [code |-> 379800, ratio |-> 24], [code |-> 294400, ratio |-> 8],
       [code |-> 283580, ratio |-> 8],  [code |-> 453810, ratio |-> 8],
       [code |-> 411060, ratio |-> 19], [code |-> 308620, ratio |-> 7],
       [code |-> 453850, ratio |-> 7],  [code |-> 385560, ratio |-> 14],
       [code |-> 449170, ratio |-> 5] >>

\* the table of the source and a table of three instruments at 50/30/20
AssetTables ==
    { ASSETS,
      << [code |-> 1, ratio |-> 50], [code |-> 2, ratio |-> 30],
         [code |-> 3, ratio |-> 20] >> }

Codes(table) == { table[k].code : k \in 1..Len(table) }

\* what get_last_price finds: a close for every code of a short table, the
\* same close for every code of the long one, or no data for one code
AllocPrices == {50, 100, 200}

LastPrices(table) ==
    LET all == IF Len(table) <= 3 THEN [Codes(table) -> AllocPrices]
               ELSE { [c \in Codes(table) |-> q] : q \in AllocPrices }
    IN  all \cup { [c \in Codes(table) \ {table[1].code} |-> 100] }

Totals == {10000, 10050, 999}

\* lines 33-46 for one asset (the faulty variant rounds to the nearest share)
AllocationRowBad(a, total) ==
    LET price      == last_price[a.code]
        target_amt == total * a.ratio
        qty        == Round(target_amt, WeightScale * price)
    IN  [code |-> a.code, ratio |-> a.ratio, price |-> price,
         target_amt |-> target_amt, qty |-> qty, buy_amt |-> qty * price,
         rest |-> target_amt - WeightScale * qty * price]

AllocationRow(a, total) ==
    LET price      == last_price[a.code]
        target_amt == total * a.ratio
        qty        == Floor(target_amt, WeightScale * price)
    IN  [code |-> a.code, ratio |-> a.ratio, price |-> price,
         target_amt |-> target_amt, qty |-> qty, buy_amt |-> qty * price,
         rest |-> target_amt - WeightScale * qty * price]

NoRebalance ==
    /\ holdings = <<>> /\ price_map = <<>> /\ weights = TARGET_WEIGHTS
    /\ fee_rate = 0 /\ use_greedy = FALSE /\ previous = <<>>
    /\ pc = "start"
    /\ error = "none"
    /\ df = <<>>
    /\ total_before = 0 /\ total_after = 0 /\ total_buy = 0
    /\ total_sell = 0 /\ total_fee = 0 /\ net_cash = 0
    /\ leftover_cash = 0
    /\ cash = 0 /\ order = <<>> /\ i = 0
    /\ df_out = <<>>
    /\ numbers = NoNumbers

NoMomentum ==
    /\ series = <<>> /\ kr_mapping = <<>>
    /\ mpc = "start" /\ scores = <<>> /\ decision = <<>>

\* lines 21-29: get_last_price raises for a code without data
AllocationRaise ==
    /\ script = "alloc"
    /\ tpc = "start"
    /\ Codes(assets) \ DOMAIN last_price # {}
    /\ tpc' = "error"
    /\ UNCHANGED << rebalance, momentum, total_krw, assets, last_price,
                    allocation, sheet, has_names, loaded >>

\* lines 31-54: the rows and the totals row
build_allocation ==
    /\ script = "alloc"
    /\ tpc = "start"
    /\ Codes(assets) \subseteq DOMAIN last_price
    /\ LET rows == [k \in 1..Len(assets) |-> AllocationRow(assets[k], total_krw)]
       IN  allocation' = [rows |-> rows,
                          ratio |-> SumSeq(Column(rows, "ratio")),
                          target_amt |-> SumSeq(Column(rows, "target_amt")),
                          buy_amt |-> SumSeq(Column(rows, "buy_amt")),
                          rest |-> SumSeq(Column(rows, "rest"))]
    /\ tpc' = "done"
    /\ UNCHANGED << rebalance, momentum, total_krw, assets, last_price,
                    sheet, has_names, loaded >>

\* ------------------------------------------------ rebalance.py load_holdings
\* a code cell of the sheet: empty, a number (379800.0) or text ("379800")
CodeCells ==
    { [kind |-> "nan", v |-> 0], [kind |-> "float", v |-> 379800],
      [kind |-> "text", v |-> 379800], [kind |-> "text", v |-> 411060] }

\* the names a sheet may carry, in ascending order
Names == <<"KODEX S&P500", "KODEX S&P500TR">>

Quantities == {0, 1, 2}

\* lines 45-56: None for an empty cell, else the integer's digits
normalize_code(x) == IF x.kind = "nan" THEN 0 ELSE x.v

\* line 100: the groupby keys (the faulty variant groups by code alone)
GroupKeyBad(r) == <<r.code, r.code>>

GroupKey(r) == <<r.code, r.name>>

NameRank(n) ==
    IF \E k \in 1..Len(Names) : Names[k] = n
    THEN CHOOSE k \in 1..Len(Names) : Names[k] = n
    ELSE 0

KeyLess(a, b) ==
    \/ a[1] < b[1]
    \/ a[1] = b[1] /\ NameRank(a[2]) < NameRank(b[2])

RECURSIVE SortedKeys(_)
SortedKeys(S) ==
    IF S = {} THEN <<>>
    ELSE LET c == CHOOSE c \in S : \A d \in S \ {c} : KeyLess(c, d)
         IN  <<c>> \o SortedKeys(S \ {c})

\* lines 93-104: normalised rows, grouped and summed, quantity > 0
Grouped(rows) ==
    LET norm == [k \in 1..Len(rows) |->
                   [code |-> normalize_code(rows[k].code),
                    name |-> IF has_names THEN rows[k].name
                             ELSE normalize_code(rows[k].code),
                    qty  |-> rows[k].qty]]
        kept == SelectSeq(norm, LAMBDA r : r.code # 0)
        keys == SortedKeys({ GroupKey(kept[k]) : k \in 1..Len(kept) })
        sums == [k \in 1..Len(keys) |->
                   LET of == SelectSeq(kept, LAMBDA r : GroupKey(r) = keys[k])
                   IN  [code |-> keys[k][1], name |-> of[1].name,
                        qty |-> SumSeq(Column(of, "qty"))]]
    IN  SelectSeq(sums, LAMBDA r : r.qty > 0)

\* lines 106-107: no row with a quantity is left
LoadRaise ==
    /\ script = "load"
    /\ tpc = "start"
    /\ Grouped(sheet) = <<>>
    /\ tpc' = "error"
    /\ UNCHANGED << rebalance, momentum, total_krw, assets, last_price,
                    allocation, sheet, has_names, loaded >>

\* lines 72-108
load_holdings ==
    /\ script = "load"
    /\ tpc = "start"
    /\ Grouped(sheet) # <<>>
    /\ loaded' = Grouped(sheet)
    /\ tpc' = "done"
    /\ UNCHANGED << rebalance, momentum, total_krw, assets, last_price,
                    allocation, sheet, has_names >>

SheetRows == [code : CodeCells, name : { Names[k] : k \in 1..Len(Names) },
              qty : Quantities]

InitTables ==
    /\ \/ /\ script = "alloc"
          /\ total_krw \in Totals
          /\ assets \in AssetTables
          /\ last_price \in LastPrices(assets)
          /\ sheet = <<>> /\ has_names = FALSE
       \/ /\ script = "load"
          /\ sheet \in UNION { [1..n -> SheetRows] : n \in 1..MaxSheet }
          /\ has_names \in BOOLEAN
          /\ total_krw = 0 /\ assets = <<>> /\ last_price = <<>>
    /\ allocation = <<>> /\ loaded = <<>>
    /\ tpc = "start"
    /\ NoRebalance
    /\ NoMomentum

NextTables ==
    \/ AllocationRaise
    \/ build_allocation
    \/ LoadRaise
    \/ load_holdings

SpecTables == InitTables /\ [][NextTables]_vars

\* ------------------------------------------------------------ properties
Returned == pc = "done"

\* the sweep of greedy_cash_spend ran in this call
Swept == use_greedy /\ leftover_cash > 0

Planned == pc \in {"planned", "sweep", "done"}

\* shares a line holds beyond its floor-quantized target
Extra(r) == r.trade_qty - (r.target_qty - r.qty)

\* C1: for every trade line (price > 0), target_value = total_before x weight
\* and target_quantity is the floor of target_value / price:
\* target_quantity x price <= target_value < (target_quantity + 1) x price.
C1_FloorBound ==
    /\ Planned =>
         \A k \in 1..Len(df) :
            LET r == df[k]
            IN  r.price > 0 =>
                  /\ r.target_value = total_before * r.weight
                  /\ r.target_qty * r.price * WeightScale <= r.target_value
                  /\ r.target_value < (r.target_qty + 1) * r.price * WeightScale
    /\ Returned =>
         \A k \in 1..Len(df_out) :
            LET r == df_out[k]
            IN  /\ r.target_qty * r.price * WeightScale <= r.target_value
                /\ r.target_value < (r.target_qty + 1) * r.price * WeightScale

\* a returned line whose target value is not a whole number of shares and
\* whose floor is at least one share
C1_Witness ==
    /\ Returned
    /\ \E k \in 1..Len(df_out) :
          /\ df_out[k].target_qty >= 1
          /\ df_out[k].target_qty * df_out[k].price * WeightScale
                < df_out[k].target_value

\* C2 (as claimed): every held instrument without an entry in the weight table
\* is fully liquidated in the returned plan: post-trade quantity 0 and trade
\* quantity -(current quantity), greedy on or off.
C2_Liquidated ==
    Returned =>
      \A k \in 1..Len(df_out) :
         df_out[k].code \notin DOMAIN weights =>
            /\ df_out[k].weight = 0
            /\ df_out[k].after_qty = 0
            /\ df_out[k].trade_qty = -df_out[k].qty

\* C3 (as claimed): in every returned line the trade quantity equals the
\* target quantity minus the current quantity, greedy on or off.
C3_Original ==
    Returned =>
      \A k \in 1..Len(df_out) :
         df_out[k].trade_qty = df_out[k].target_qty - df_out[k].qty

\* C3 (amended): in every returned line the trade quantity equals post-trade
\* quantity minus current quantity; it equals target minus current quantity
\* when the sweep did not run, and otherwise exceeds it by the whole shares
\* the sweep bought for that line, which cost exactly the cash the sweep spent.
C3_TradeQuantity ==
    Returned =>
      /\ \A k \in 1..Len(df_out) :
            /\ df_out[k].trade_qty = df_out[k].after_qty - df_out[k].qty
            /\ Extra(df_out[k]) >= 0
            /\ ~Swept => Extra(df_out[k]) = 0
      /\ Swept =>
            SumSeq([k \in 1..Len(df_out) |-> Extra(df_out[k]) * df_out[k].price])
               = leftover_cash - cash

\* a returned line that the sweep topped up
C3_Witness ==
    /\ Returned /\ Swept
    /\ \E k \in 1..Len(df_out) :
          df_out[k].trade_qty > df_out[k].target_qty - df_out[k].qty

\* C4 (as claimed): the weights attached to the returned trade lines sum to
\* 1.0 within 1e-6, for any set of held instruments.
C4_LineWeightsSum ==
    Returned =>
      Abs(SumSeq(Column(df_out, "weight")) - WeightScale) * EpsDen
         <= EpsNum * WeightScale

\* C5: when greedy_cash_spend finishes, leftover_cash is >= 0 and strictly
\* smaller than the price of every instrument in the table.
C5_LeftoverBelowPrices ==
    (Returned /\ Swept) =>
       /\ cash >= 0
       /\ \A k \in 1..Len(df) : cash < df[k].price

\* the sweep bought shares and still ended with cash in hand
C5_Witness ==
    /\ Returned /\ Swept
    /\ cash > 0
    /\ cash < leftover_cash

\* C6: at every step of the sweep leftover_cash is >= 0 and never larger than
\* at the previous step; it changes only by subtracting the price of one share
\* of the current instrument, and only when leftover_cash >= that price.
C6_Monotone ==
    /\ [](pc = "sweep" => cash >= 0)
    /\ [][pc = "sweep" =>
            /\ cash' <= cash
            /\ cash' >= 0
            /\ cash' # cash =>
                 /\ i < Len(order)
                 /\ cash' = cash - df[order[i + 1]].price
                 /\ cash >= df[order[i + 1]].price]_vars

\* the sweep is under way and has spent some of the cash
C6_Witness ==
    /\ pc = "sweep"
    /\ cash < leftover_cash
    /\ cash > 0

\* leftover cash after the first k instruments of the order, by the formula
\* L(k) = L(k-1) - floor(L(k-1) / price_k) x price_k
RECURSIVE CashAfter(_)
CashAfter(k) ==
    IF k = 0 THEN leftover_cash
    ELSE LET before == CashAfter(k - 1)
             price  == df[order[k]].price
         IN  before - (before \div price) * price

ExpectedBuy(r) ==
    Round(ClipLower0(r.trade_qty) * r.price * (FeeScale + fee_rate), FeeScale)

ExpectedSell(r) ==
    Round(NegClipUpper0(r.trade_qty) * r.price * (FeeScale - fee_rate), FeeScale)

ExpectedFees(r) ==
    (ClipLower0(r.trade_qty) + NegClipUpper0(r.trade_qty)) * r.price * fee_rate

\* C8 (as claimed): after a sweep with fee_rate > 0 every monetary field
\* equals what the fee-adjusted formulas give for the post-sweep trade
\* quantities: the lines' buy, sell, fees and net amounts and the summary's
\* total buy, total sell, total fee and net cash flow.
C8_FeeRecomputed ==
    (Returned /\ Swept /\ fee_rate > 0) =>
       /\ \A k \in 1..Len(df) :
            /\ df[k].buy_amt = ExpectedBuy(df[k])
            /\ df[k].sell_amt = ExpectedSell(df[k])
            /\ df[k].buy_fee + df[k].sell_fee = ExpectedFees(df[k])
            /\ df[k].net_amt = ExpectedBuy(df[k]) - ExpectedSell(df[k])
       /\ numbers.total_buy = SumSeq([k \in 1..Len(df) |-> ExpectedBuy(df[k])])
       /\ numbers.total_sell = SumSeq([k \in 1..Len(df) |-> ExpectedSell(df[k])])
       /\ numbers.total_fee = SumSeq([k \in 1..Len(df) |-> ExpectedFees(df[k])])
       /\ numbers.net_cash
            = SumSeq([k \in 1..Len(df) |-> ExpectedBuy(df[k])]) - SumSeq([k \in 1..Len(df) |-> ExpectedSell(df[k])])

\* C9 (as claimed): the summary is a reduction of the returned lines:
\* value-before = sum of current value, value-after = sum of post-trade
\* value, total buy = sum of buy amount, total sell = sum of sell amount.
C9_PureReduction ==
    Returned =>
       /\ numbers.total_before = SumSeq(Column(df_out, "cur_value"))
       /\ numbers.total_after = SumSeq(Column(df_out, "after_value"))
       /\ numbers.total_buy = SumSeq(Column(df_out, "buy_amt"))
       /\ numbers.total_sell = SumSeq(Column(df_out, "sell_amt"))

\* C10: in every returned summary net cash flow = total buy - total sell,
\* fee-adjusted net value = value after - total fee, and value delta =
\* value after - value before.
C10_SummaryIdentities ==
    Returned =>
       /\ numbers.net_cash = numbers.total_buy - numbers.total_sell
       /\ numbers.fee_adjusted_value
            = numbers.total_after * FeeScale - numbers.total_fee
       /\ numbers.delta = numbers.total_after - numbers.total_before

\* a summary after a sweep with fees, with money flowing
C10_Witness ==
    /\ Returned /\ Swept
    /\ fee_rate > 0
    /\ numbers.total_fee > 0
    /\ numbers.net_cash # 0

\* --------------------------------------------- properties, momentum scripts
Decided(s) == script = s /\ mpc = "done"

\* a <= b on exact ratios
LE(a, b) == a.num * b.den <= b.num * a.den

\* decide_allocation: the risk candidate with the highest 12-month return
HighestRisk == IF LE(scores["EFA"], scores["SPY"]) THEN "SPY" ELSE "EFA"

\* pick_asset: positions of the equities whose return is the highest
BestEquities ==
    { k \in 1..Len(ETFS) :
        /\ ~scores.equity_12m[k].nan
        /\ \A j \in 1..Len(ETFS) :
              scores.equity_12m[j].nan \/ LE(scores.equity_12m[j], scores.equity_12m[k]) }

\* C11 (as claimed): whenever the highest-returning risk candidate's
\* 12-month return strictly exceeds the benchmark's (BIL, the bond), the
\* decision is that candidate.
C11_Original ==
    /\ Decided("dual") =>
         (~LE(scores[HighestRisk], scores["BIL"]) => decision.chosen_us = HighestRisk)
    /\ Decided("pick") =>
         \A k \in BestEquities :
            (~scores.bond_12m.nan /\ ~LE(scores.equity_12m[k], scores.bond_12m))
               => \E j \in BestEquities : decision.pick = ETFS[j]

\* C11 (amended): decide_allocation gates on SPY alone: whenever SPY's
\* 12-month return strictly exceeds BIL's, the decision is the
\* higher-returning of SPY and EFA, and EFA is never the decision otherwise;
\* pick_asset: whenever the best equity's return strictly exceeds the
\* bond's, the pick is a best equity.
C11_Selection ==
    /\ Decided("dual") =>
         /\ ~LE(scores["SPY"], scores["BIL"]) => decision.chosen_us = HighestRisk
         /\ LE(scores["SPY"], scores["BIL"]) => decision.chosen_us # "EFA"
    /\ Decided("pick") =>
         \A k \in BestEquities :
            (~scores.bond_12m.nan /\ ~LE(scores.equity_12m[k], scores.bond_12m))
               => \E j \in BestEquities : decision.pick = ETFS[j]

\* SPY beats BIL, EFA beats SPY, and EFA is the decision
C11_Witness ==
    /\ Decided("dual")
    /\ ~LE(scores["SPY"], scores["BIL"])
    /\ ~LE(scores["EFA"], scores["SPY"])
    /\ decision.chosen_us = "EFA"

\* C12: whenever SPY's 12-month return does not exceed BIL's (equality
\* included) decide_allocation selects AGG whatever EFA's return is, and
\* whenever the best equity's return does not exceed the bond's pick_asset
\* selects the bond.
C12_Fallback ==
    /\ Decided("dual") =>
         (LE(scores["SPY"], scores["BIL"]) => decision.chosen_us = "AGG")
    /\ Decided("pick") =>
         \A k \in BestEquities :
            (~scores.bond_12m.nan /\ LE(scores.equity_12m[k], scores.bond_12m))
               => decision.pick = BOND

\* SPY ties with BIL, EFA beats both, and AGG is the decision
C12_Witness ==
    /\ Decided("dual")
    /\ LE(scores["SPY"], scores["BIL"]) /\ LE(scores["BIL"], scores["SPY"])
    /\ ~LE(scores["EFA"], scores["BIL"])
    /\ decision.chosen_us = "AGG"

\* the risk candidates of decision_banner and their unrounded scores
RiskTickers ==
    { DECISION_ASSETS[k].ticker : k \in { j \in 1..Len(DECISION_ASSETS) :
                                            DECISION_ASSETS[j].group = "aggr" } }

RawPositive(t) ==
    LET s == snapshot_momentum(series[t]) IN s.num > 0

C14_TieBreak ==
    /\ Decided("dual") =>
         ((LE(scores["SPY"], scores["EFA"]) /\ LE(scores["EFA"], scores["SPY"]))
             => decision.chosen_us # "EFA")
    /\ Decided("vaa") =>
         \A k \in 1..Len(scores) :
            (/\ scores[k].group = decision.tgt.group
             /\ ~scores[k].score.nan
             /\ scores[k].score.num = decision.tgt.score.num)
               => \E j \in 1..k : scores[j] = decision.tgt
    /\ Decided("pick") =>
         (decision.pick # BOND =>
            \E k \in BestEquities : /\ decision.pick = ETFS[k]
                                    /\ \A j \in BestEquities : k <= j)

\* two rows of the winning group tie on the winning score
C14_Witness ==
    /\ Decided("vaa")
    /\ \E j, k \in 1..Len(scores) :
          /\ j < k
          /\ scores[j] = decision.tgt
          /\ scores[k].group = decision.tgt.group
          /\ ~scores[k].score.nan
          /\ scores[k].score.num = decision.tgt.score.num

\* C15 (as claimed): if any candidate's history has fewer than 13 monthly
\* points, the evaluation fails and produces no decision.
C15_NoDecision ==
    /\ script = "dual" =>
         ((\E k \in 1..Len(US_TICKERS) : Len(series[US_TICKERS[k]]) < MIN_MONTHS)
             => mpc # "done" /\ decision = <<>>)
    /\ script = "vaa" =>
         ((\E k \in 1..Len(DECISION_ASSETS) :
               Len(series[DECISION_ASSETS[k].ticker]) < MIN_MONTHS)
             => mpc # "done" /\ decision = <<>>)

\* ------------------------------------------- properties, compute_rebalance
HeldCodes == { holdings[k].code : k \in 1..Len(holdings) }

TargetedCodes == { c \in DOMAIN weights : weights[c] > 0 }

\* C16 (as claimed): if any held or targeted instrument has no price in the
\* price map, compute_rebalance fails: no trade lines and no summary.
C16_MissingPriceFatal ==
    (\E c \in HeldCodes \cup TargetedCodes : c \notin DOMAIN price_map) =>
       /\ ~Planned
       /\ df_out = <<>> /\ numbers = NoNumbers

\* C17 (as claimed, decide_allocation): no allocation is returned when the
\* rows mapped to the chosen outcome do not sum to 100%.
C17_AllocationSums ==
    Decided("dual") => SumSeq(Column(decision.kr_alloc, "weight")) = 100

\* the holdings already are the floor targets: qty = floor(T * weight / price)
Balanced ==
    \A k \in 1..Len(df) :
       /\ df[k].qty * df[k].price * WeightScale <= total_before * df[k].weight
       /\ total_before * df[k].weight < (df[k].qty + 1) * df[k].price * WeightScale

\* C18: rebalancing holdings whose quantities already equal the target
\* quantities yields trade quantity 0 on every line, total buy = total
\* sell = 0 and total fee = 0, for any fee rate, greedy on or off.
C18_Idempotent ==
    (Returned /\ Balanced) =>
       /\ \A k \in 1..Len(df_out) :
             /\ df_out[k].trade_qty = 0
             /\ df_out[k].after_qty = df_out[k].qty
       /\ numbers.total_buy = 0 /\ numbers.total_sell = 0
       /\ numbers.total_fee = 0

\* balanced holdings rebalanced with a fee rate and the greedy flag on
C18_Witness ==
    /\ Returned /\ Balanced
    /\ fee_rate > 0 /\ use_greedy
    /\ Len(df_out) >= 2

GrossBuy(r) == ClipLower0(r.trade_qty) * r.price

GrossSell(r) == NegClipUpper0(r.trade_qty) * r.price

\* C19: with fee_rate > 0 and greedy off, on every line buy fee = gross buy
\* x fee_rate, sell fee = gross sell x fee_rate, buy amount = round(gross
\* buy + buy fee), sell amount = round(gross sell - sell fee), net amount =
\* buy amount - sell amount, and total fee = the sum of the lines' fees;
\* with fee_rate = 0 every fee is 0 and the amounts are the gross amounts.
C19_FeeFormulas ==
    /\ (Returned /\ ~use_greedy /\ fee_rate > 0) =>
          /\ \A k \in 1..Len(df) :
                /\ df[k].buy_fee = GrossBuy(df[k]) * fee_rate
                /\ df[k].sell_fee = GrossSell(df[k]) * fee_rate
                /\ df[k].buy_amt = ExpectedBuy(df[k])
                /\ df[k].sell_amt = ExpectedSell(df[k])
                /\ df[k].net_amt = df[k].buy_amt - df[k].sell_amt
          /\ numbers.total_fee
               = SumSeq([k \in 1..Len(df) |-> df[k].buy_fee + df[k].sell_fee])
    /\ (Returned /\ fee_rate = 0) =>
          /\ \A k \in 1..Len(df) :
                /\ df[k].buy_fee = 0 /\ df[k].sell_fee = 0
                /\ df[k].buy_amt = GrossBuy(df[k])
                /\ df[k].sell_amt = GrossSell(df[k])
          /\ numbers.total_fee = 0

\* a plan with a fee rate, greedy off, that buys on one line and sells on
\* another, a fee moving the rounded sell amount
C19_Witness ==
    /\ Returned /\ ~use_greedy /\ fee_rate > 0
    /\ \E j, k \in 1..Len(df) :
          /\ df[j].trade_qty > 0
          /\ df[k].trade_qty < 0
          /\ df[k].sell_amt < GrossSell(df[k])

\* sum over the returned lines of trade quantity x price
NetTraded == SumSeq([k \in 1..Len(df_out) |-> df_out[k].trade_qty * df_out[k].price])

\* (total_before x sum of the lines' weights - total_before) - NetTraded,
\* x WeightScale
RoundingError ==
    total_before * SumSeq(Column(df_out, "weight")) - WeightScale * total_before
       - WeightScale * NetTraded

\* C20: with fee_rate 0 and greedy off, the net traded value equals the sum
\* of target quantity x price minus total_before, and it falls short of
\* total_before x sum of weights - total_before by a rounding error that is
\* >= 0 and <= N x max(price) for N trade lines.
C20_NetTraded ==
    (Returned /\ ~use_greedy /\ fee_rate = 0) =>
       /\ NetTraded
            = SumSeq([k \in 1..Len(df_out) |-> df_out[k].target_qty * df_out[k].price])
                 - numbers.total_before
       /\ RoundingError >= 0
       /\ \E m \in 1..Len(df_out) :
             /\ \A k \in 1..Len(df_out) : df_out[k].price <= df_out[m].price
             /\ RoundingError <= WeightScale * Len(df_out) * df_out[m].price

\* a plan without fees, greedy off, that trades and loses value to the floor
C20_Witness ==
    /\ Returned /\ ~use_greedy /\ fee_rate = 0
    /\ RoundingError > 0
    /\ \E k \in 1..Len(df_out) : df_out[k].trade_qty > 0
    /\ \E k \in 1..Len(df_out) : df_out[k].trade_qty < 0

\* C21: with the greedy flag off, or when total sell <= total buy, every
\* returned line has exactly the trade quantity, post-trade quantity and
\* amounts of the floor-quantized plan (leftover_cash is the floor plan's
\* total sell - total buy, line 223).
C21_FrameEffect ==
    (Returned /\ (~use_greedy \/ leftover_cash <= 0)) =>
       \A k \in 1..Len(df_out) :
          LET r == df_out[k] IN
          /\ r.target_qty * r.price * WeightScale <= r.target_value
          /\ r.target_value < (r.target_qty + 1) * r.price * WeightScale
          /\ r.trade_qty = r.target_qty - r.qty
          /\ r.after_qty = r.target_qty
          /\ r.after_value = r.target_qty * r.price
          /\ r.buy_amt = ExpectedBuy(r)
          /\ r.sell_amt = ExpectedSell(r)
          /\ r.net_amt = ExpectedBuy(r) - ExpectedSell(r)

\* the flag is off although the floor plan leaves cash for another share
C21_Witness ==
    /\ Returned /\ ~use_greedy
    /\ \E k \in 1..Len(df_out) : leftover_cash >= df_out[k].price

\* --------------------------- properties, build_allocation and load_holdings
Allocated == script = "alloc" /\ tpc = "done"

\* prices [100, 200, 50], weights [0.5, 0.3, 0.2], T = 10,000
ScenarioA ==
    /\ Len(assets) = 3
    /\ total_krw = 10000
    /\ last_price[assets[1].code] = 100 /\ assets[1].ratio = 50
    /\ last_price[assets[2].code] = 200 /\ assets[2].ratio = 30
    /\ last_price[assets[3].code] = 50 /\ assets[3].ratio = 20

\* C22: starting from no holdings with a total T to invest, each
\* instrument's quantity is floor(T x weight / price) and the quantity
\* bought is that quantity; prices [100, 200, 50], weights [0.5, 0.3, 0.2]
\* and T = 10,000 give [50, 15, 40].
C22_ScenarioA ==
    Allocated =>
       /\ Len(allocation.rows) = Len(assets)
       /\ \A k \in 1..Len(assets) :
             LET r == allocation.rows[k] IN
             /\ r.code = assets[k].code
             /\ r.qty >= 0
             /\ r.qty * r.price * WeightScale <= total_krw * assets[k].ratio
             /\ total_krw * assets[k].ratio < (r.qty + 1) * r.price * WeightScale
             /\ r.buy_amt = r.qty * last_price[r.code]
       /\ ScenarioA => Column(allocation.rows, "qty") = <<50, 15, 40>>

\* the scenario has run
C22_Witness ==
    /\ Allocated /\ ScenarioA
    /\ Column(allocation.rows, "buy_amt") = <<5000, 3000, 2000>>

\* a = b on exact ratios
SameRatio(a, b) == a.num * b.den = b.num * a.den

\* last close / the close k positions before the last - 1
ByPosition(monthly, k) ==
    [nan |-> FALSE,
     num |-> monthly[Len(monthly)] - monthly[Len(monthly) - k],
     den |-> monthly[Len(monthly) - k]]

\* 12 a + 4 b + 2 c + d on exact ratios
Weighted(a, b, c, d) ==
    [nan |-> FALSE,
     num |-> 12 * a.num * (b.den * c.den * d.den) + 4 * b.num * (a.den * c.den * d.den)
             + 2 * c.num * (a.den * b.den * d.den) + d.num * (a.den * b.den * c.den),
     den |-> a.den * b.den * c.den * d.den]

SweepSpend ==
    SumSeq([k \in 1..Len(df) |-> Extra(df[k]) * df[k].price * (FeeScale + fee_rate)])

\* the final plan's buys with their fees and its sells net of fees, x FeeScale
PlanBuys ==
    SumSeq([k \in 1..Len(df_out) |->
               ClipLower0(df_out[k].trade_qty) * df_out[k].price * (FeeScale + fee_rate)])

PlanSells ==
    SumSeq([k \in 1..Len(df_out) |->
               NegClipUpper0(df_out[k].trade_qty) * df_out[k].price * (FeeScale - fee_rate)])

\* C24 (as claimed): with fee_rate > 0 and the greedy flag on, the cash the
\* sweep spends on extra shares, counting the buy fee on them, never
\* exceeds the leftover cash it was given.
C24_SpendCovered ==
    (Returned /\ Swept /\ fee_rate > 0) =>
       /\ SweepSpend <= leftover_cash * FeeScale
       /\ PlanBuys <= PlanSells

\* C25 (as claimed): after compute_rebalance with greedy on, every line
\* satisfies post-trade value - target value < price.
C25_Original ==
    (Returned /\ use_greedy) =>
       \A k \in 1..Len(df_out) :
          WeightScale * df_out[k].after_value - df_out[k].target_value
             < WeightScale * df_out[k].price

\* C25 (amended): the sweep may carry a line past its target by whole
\* shares.  With greedy on, a line's post-trade value exceeds its target
\* value by at most the price of the extra shares the sweep bought for it
\* (so a line without extra shares stays at or below target), and the extra
\* shares of all lines together cost at most the leftover cash of the floor
\* plan.
C25_Overshoot ==
    (Returned /\ use_greedy) =>
       /\ \A k \in 1..Len(df_out) :
             /\ Extra(df_out[k]) >= 0
             /\ WeightScale * df_out[k].after_value - df_out[k].target_value
                   <= WeightScale * Extra(df_out[k]) * df_out[k].price
       /\ SumSeq([k \in 1..Len(df_out) |-> Extra(df_out[k]) * df_out[k].price])
             <= ClipLower0(leftover_cash)

\* a line with a target weight ends a whole share or more above its target
C25_Witness ==
    /\ Returned /\ use_greedy
    /\ \E k \in 1..Len(df_out) :
          /\ df_out[k].weight > 0
          /\ WeightScale * df_out[k].after_value - df_out[k].target_value
                >= WeightScale * df_out[k].price

\* C27: in every returned line, with and without the sweep, post-trade
\* quantity = current quantity + trade quantity, post-trade value =
\* post-trade quantity x price, and target quantity and post-trade quantity
\* are both >= 0.
C27_LineArithmetic ==
    Returned =>
       \A k \in 1..Len(df_out) :
          LET r == df_out[k] IN
          /\ r.after_qty = r.qty + r.trade_qty
          /\ r.after_value = r.after_qty * r.price
          /\ r.target_qty >= 0
          /\ r.after_qty >= 0

\* a returned plan in which the sweep bought a share for one line and
\* another line was sold
C27_Witness ==
    /\ Returned
    /\ \E k \in 1..Len(df_out) : Extra(df_out[k]) > 0
    /\ \E k \in 1..Len(df_out) : df_out[k].trade_qty < 0

\* shares the sweep has bought so far, and the lowest price of the table
Purchases == SumSeq([k \in 1..Len(df) |-> Extra(df[k])])

MinPrice == CHOOSE m \in { df[k].price : k \in 1..Len(df) } :
               \A k \in 1..Len(df) : m <= df[k].price

\* C28: greedy_cash_spend terminates for every table whose prices are all
\* > 0: a sweep that has begun always ends, after at most
\* floor(leftover / smallest price) purchases and one advance per instrument.
C28_Terminates ==
    /\ [](pc = "sweep" =>
            /\ \A k \in 1..Len(df) : df[k].price > 0
            /\ Purchases <= leftover_cash \div MinPrice
            /\ i <= Len(order))
    /\ (pc = "sweep") ~> (pc = "done")

\* a sweep that bought a share and walked past every instrument has returned
C28_Witness ==
    /\ Returned /\ Swept
    /\ Purchases > 0
    /\ i = Len(order)

\* cash left after the sweep has passed the first k rows of the order o,
\* and the shares it buys for the k-th row of o
RECURSIVE CashAlong(_, _)
CashAlong(o, k) ==
    IF k = 0 THEN leftover_cash
    ELSE LET before == CashAlong(o, k - 1)
             price  == df[o[k]].price
         IN  before - (before \div price) * price

SharesAlong(o, k) == CashAlong(o, k - 1) \div df[o[k]].price

Rerun == previous # <<>> /\ Returned

\* the line of the fed-back plan for the same instrument
PreviousLine(code) ==
    LET k == CHOOSE k \in 1..Len(previous.lines) : previous.lines[k].code = code
    IN  previous.lines[k]

\* C26 (as claimed): feeding the post-trade quantities of a run (fee_rate
\* 0) back in as the holdings, with the same prices and weights, yields
\* trade quantity 0 on every line.
C26_Original ==
    Rerun => \A k \in 1..Len(df_out) : df_out[k].trade_qty = 0

\* C26 (amended): the plan is not a fixed point in general.  The second
\* run starts from the first run's post-trade value, which is at most the
\* first run's starting value; each line's target quantity is then at most
\* its target quantity in the first run and at most the fed-back holding.
\* With greedy off the second run never buys (every trade quantity <= 0),
\* and it trades nothing when the first run kept the whole starting value.
C26_Rerun ==
    Rerun =>
       /\ numbers.total_before = SumSeq(Column(previous.lines, "after_value"))
       /\ numbers.total_before <= previous.numbers.total_before
       /\ \A k \in 1..Len(df_out) :
             /\ df_out[k].qty = PreviousLine(df_out[k].code).after_qty
             /\ df_out[k].target_qty <= PreviousLine(df_out[k].code).target_qty
             /\ df_out[k].target_qty <= df_out[k].qty
             /\ ~use_greedy => df_out[k].trade_qty <= 0
             /\ (~use_greedy /\ numbers.total_before = previous.numbers.total_before)
                   => df_out[k].trade_qty = 0

\* a second run without the sweep that sells
C26_Witness ==
    /\ Rerun /\ ~use_greedy
    /\ \E k \in 1..Len(df_out) : df_out[k].trade_qty < 0

\* -------------------------------------------------- properties, load_holdings
Loaded == script = "load" /\ tpc = "done"

\* the quantities of the sheet rows whose code cell normalises to code
SheetQuantity(code) ==
    SumSeq(Column(SelectSeq(sheet, LAMBDA r : normalize_code(r.code) = code), "qty"))

\* C30 (as claimed): in the table load_holdings returns no instrument code
\* appears in more than one row; rows of the sheet that share a code are
\* merged into one row whose quantity is the sum of theirs.
C30_OneRowPerCode ==
    Loaded =>
       /\ \A k, l \in 1..Len(loaded) : k # l => loaded[k].code # loaded[l].code
       /\ \A k \in 1..Len(loaded) : loaded[k].qty = SheetQuantity(loaded[k].code)

=============================================================================
